---- MODULE Spec2Model ----
(***************************************************************************)
(* Cohere provider adapter of mcp-rig (crates/mcp-rig/src/providers/       *)
(* cohere.rs): the completion and embedding calls, the conversions they    *)
(* apply to requests and responses, and the HTTP exchange they perform.    *)
(*                                                                         *)
(* A call is an async function: it runs synchronously up to `.send()`,     *)
(* is suspended until the transport answers, runs up to the body read      *)
(* (`.json()` / `.text()`), is suspended again, and then returns.  Each    *)
(* of these three synchronous stretches is one action.                     *)
(***************************************************************************)
EXTENDS Integers, Sequences, FiniteSets, TLC

(***************************************************************************)
(* Bounds of the explored inputs.                                          *)
(***************************************************************************)
MaxDocs == 2        \* documents per embed_texts call
MaxVecs == 3        \* vectors in a provider embedding answer
MaxParts == 2       \* content parts per canonical message
MaxHistory == 2     \* messages in chat_history
MaxUnion == 2       \* members of a JSON-schema union type
MaxToolCalls == 2   \* tool calls in a provider completion answer

SeqsUpTo(S, n) == UNION {[1..k -> S] : k \in 0..n}

(***************************************************************************)
(* serde_json::Value.  A value is a record tagged by `t`; an object holds  *)
(* a function from keys to values, an array a sequence of values.          *)
(* Numbers are integers (a temperature is held in tenths: 5 is 0.5).       *)
(* A body that is not JSON at all is tagged "raw".                         *)
(***************************************************************************)
JNull == [t |-> "null"]
JBool(b) == [t |-> "bool", v |-> b]
JStr(s) == [t |-> "str", v |-> s]
JNum(n) == [t |-> "num", v |-> n]
JArr(a) == [t |-> "arr", v |-> a]
JObj(o) == [t |-> "obj", v |-> o]
Raw(s) == [t |-> "raw", v |-> s]

EmptyObj == JObj(<<>>)

Has(j, k) == j.t = "obj" /\ k \in DOMAIN j.v

IsStrList(j) == j.t = "arr" /\ \A i \in 1..Len(j.v) : j.v[i].t = "str"
IsVecF64(j) == j.t = "arr" /\ \A i \in 1..Len(j.v) : j.v[i].t = "num"

\* Option<String> serialised by json!: None becomes null
OptStr(o) == IF o.some THEN JStr(o.v) ELSE JNull
OptNum(o) == IF o.some THEN JNum(o.v) ELSE JNull
None == [some |-> FALSE]
Some(x) == [some |-> TRUE, v |-> x]

(***************************************************************************)
(* State.                                                                  *)
(***************************************************************************)
Calls == {"c1", "c2"}

VARIABLES
    client,      \* the Client built by Client::from_url: base_url and credential
    pool,        \* which set of requests the callers draw from
    pc,          \* per call: "off", "idle", "sending", "reading", "done", "panicked"
    op,          \* per call: "none", "completion", "embed_texts"
    req,         \* per call: the argument of the call
    http_calls,  \* per call: number of HTTP requests issued so far
    wire,        \* per call: the request handed to the transport
    status,      \* per call: HTTP status of the answer (0: none yet)
    body,        \* per call: body of the answer as read
    result       \* per call: the value returned to the caller

vars == <<client, pool, pc, op, req, http_calls, wire, status, body, result>>

COHERE_API_BASE_URL == "https://api.cohere.ai"
EMBED_ENGLISH_V3 == "embed-english-v3.0"
COMMAND_R == "command-r"

\* Client::from_url
from_url(api_key, base_url) == [base_url |-> base_url, authorization |-> <<"Bearer", api_key>>]

\* Client::post: the request builder for base_url/path
post(cl, path) == [base_url |-> cl.base_url, path |-> path, headers |-> cl.authorization]

NoValue == [kind |-> "None"]
NoWire == [path |-> "none"]

Statuses == {200, 299, 500}
\* StatusCode::is_success
is_success(s) == s >= 200 /\ s <= 299

(***************************************************************************)
(* Embedding API.                                                          *)
(***************************************************************************)
Texts == {"a", "b"}
Documents == SeqsUpTo(Texts, MaxDocs)

\* struct Meta / ApiVersion / BilledUnits
IsMeta(j) ==
    /\ j.t = "obj"
    /\ Has(j, "api_version") /\ Has(j.v.api_version, "version")
    /\ j.v.api_version.v.version.t = "str"
    /\ Has(j, "billed_units") /\ j.v.billed_units.t = "obj"

\* struct EmbeddingResponse, as serde decodes it from a JSON object
IsEmbeddingResponse(j) ==
    /\ j.t = "obj"
    /\ Has(j, "id") /\ j.v.id.t = "str"
    /\ Has(j, "embeddings") /\ j.v.embeddings.t = "arr"
    /\ \A i \in 1..Len(j.v.embeddings.v) : IsVecF64(j.v.embeddings.v[i])
    /\ Has(j, "texts") /\ IsStrList(j.v.texts)
    /\ (Has(j, "response_type") => j.v.response_type.t \in {"str", "null"})
    /\ (Has(j, "meta") => (j.v.meta.t = "null" \/ IsMeta(j.v.meta)))

\* struct ApiErrorResponse
IsApiErrorResponse(j) == j.t = "obj" /\ Has(j, "message") /\ j.v.message.t = "str"

\* Vec<f64> read out of a JSON array of numbers
VecOf(j) == [i \in 1..Len(j.v) |-> j.v[i].v]

\* response.json::<ApiResponse<EmbeddingResponse>>(): the untagged enum tries
\* Ok(T) first, then Err(ApiErrorResponse); neither is a decode error
DecodeEmbedding(j) ==
    IF IsEmbeddingResponse(j)
    THEN [tag |-> "Ok",
          embeddings |-> [i \in 1..Len(j.v.embeddings.v) |-> VecOf(j.v.embeddings.v[i])],
          texts |-> [i \in 1..Len(j.v.texts.v) |-> j.v.texts.v[i].v]]
    ELSE IF IsApiErrorResponse(j)
    THEN [tag |-> "Err", message |-> j.v.message.v]
    ELSE [tag |-> "Fail"]

\* variant of ZipEmbeddings that pairs the vectors with the documents read backwards
ZipEmbeddings_Reversed(embeddings, documents) ==
    [i \in 1..(IF Len(embeddings) < Len(documents) THEN Len(embeddings) ELSE Len(documents))
        |-> [document |-> documents[Len(documents) + 1 - i], vec |-> embeddings[i]]]

\* the zip of the returned vectors with the input documents
ZipEmbeddings(embeddings, documents) ==
    [i \in 1..(IF Len(embeddings) < Len(documents) THEN Len(embeddings) ELSE Len(documents))
        |-> [document |-> documents[i], vec |-> embeddings[i]]]

\* variant of EmbedOk without the length check: the zip pairs what it can
EmbedOk_BestEffort(response, documents) ==
    [kind |-> "Ok", payload |-> ZipEmbeddings(response.embeddings, documents)]

\* the body of embed_texts once the success payload is decoded
EmbedOk(response, documents) ==
    IF Len(response.embeddings) # Len(documents)
    THEN [kind |-> "DocumentError",
          payload |-> [expected |-> Len(documents), got |-> Len(response.embeddings)]]
    ELSE [kind |-> "Ok", payload |-> ZipEmbeddings(response.embeddings, documents)]


(***************************************************************************)
(* What the provider may answer.  A body stands for its own text: the      *)
(* value `response.text()` yields for body b is b.                         *)
(***************************************************************************)
Vec1 == JArr(<<JNum(1), JNum(2)>>)
Vec2 == JArr(<<JNum(3)>>)
ValidMeta ==
    JObj([api_version |-> JObj([version |-> JStr("1")]),
          billed_units |-> JObj([input_tokens |-> JNum(7)])])

EmbeddingPayload(vecs, texts) ==
    JObj([id |-> JStr("e1"), embeddings |-> JArr(vecs), texts |-> JArr(texts)])

EmbedBodies ==
    {EmbeddingPayload(vs, ts) :
        vs \in SeqsUpTo({Vec1, Vec2}, MaxVecs),
        ts \in {<<>>, <<JStr("b"), JStr("a")>>}}
    \cup {JObj([id |-> JStr("e2"), embeddings |-> JArr(<<Vec2>>), texts |-> JArr(<<>>),
                meta |-> m]) : m \in {ValidMeta, JNull, JStr("n/a")}}
    \cup {JObj([id |-> JStr("e3"), embeddings |-> JArr(<<JArr(<<JStr("x")>>)>>),
                texts |-> JArr(<<>>)])}
    \cup {JObj([id |-> JStr("e4"), embeddings |-> JArr(<<Vec1>>), texts |-> JArr(<<>>),
                message |-> JStr("both shapes")])}

ErrorBodies ==
    {JObj([message |-> JStr("invalid api token")]),
     JObj([message |-> JNum(4)]),
     JObj([foo |-> JNum(1)]),
     JNum(0),
     Raw("<html>Bad Gateway</html>")}


Unreadable == [t |-> "unreadable"]   \* the body read fails in the transport
\* what `.send()` yields: a transport failure, or a response with a status
TransportError == [err |-> TRUE, status |-> 0]
Answer(s) == [err |-> FALSE, status |-> s]
SendAnswers == {TransportError} \cup {Answer(s) : s \in Statuses}

HttpError == [kind |-> "HttpError", payload |-> Raw("reqwest error")]
ProviderError(text) == [kind |-> "ProviderError", payload |-> text]

(***************************************************************************)
(* EmbeddingModel::embed_texts                                             *)
(***************************************************************************)
EmbedRequestBody(documents) ==
    JObj([model |-> JStr(EMBED_ENGLISH_V3),
          texts |-> JArr([i \in 1..Len(documents) |-> JStr(documents[i])]),
          input_type |-> JStr("search_document")])

\* up to `.send().await`: the one request of the call is handed to the transport
embed_texts(c, documents) ==
    /\ pc[c] = "idle"
    /\ op' = [op EXCEPT ![c] = "embed_texts"]
    /\ req' = [req EXCEPT ![c] = documents]
    /\ wire' = [wire EXCEPT ![c] =
                    [request |-> post(client, "/v1/embed"), json |-> EmbedRequestBody(documents)]]
    /\ http_calls' = [http_calls EXCEPT ![c] = @ + 1]
    /\ pc' = [pc EXCEPT ![c] = "sending"]
    /\ UNCHANGED <<client, pool, status, body, result>>

\* `.send().await?` returns: a transport failure ends the call, an answer is kept
embed_texts_sent(c, answer) ==
    /\ pc[c] = "sending" /\ op[c] = "embed_texts"
    /\ IF answer.err
       THEN /\ result' = [result EXCEPT ![c] = HttpError]
            /\ pc' = [pc EXCEPT ![c] = "done"]
            /\ UNCHANGED status
       ELSE /\ status' = [status EXCEPT ![c] = answer.status]
            /\ pc' = [pc EXCEPT ![c] = "reading"]
            /\ UNCHANGED result
    /\ UNCHANGED <<client, pool, op, req, http_calls, wire, body>>

\* the value embed_texts returns once the body b has been read
EmbedResult(st, b, documents) ==
    IF is_success(st)
    THEN IF b = Unreadable THEN HttpError
         ELSE LET r == DecodeEmbedding(b) IN
              CASE r.tag = "Ok" -> EmbedOk(r, documents)
                [] r.tag = "Err" -> ProviderError(Raw(r.message))
                [] OTHER -> HttpError
    ELSE IF b = Unreadable THEN HttpError ELSE ProviderError(b)

\* `.json().await?` / `.text().await?` returns
embed_texts_body(c, b) ==
    /\ pc[c] = "reading" /\ op[c] = "embed_texts"
    /\ body' = [body EXCEPT ![c] = b]
    /\ result' = [result EXCEPT ![c] = EmbedResult(status[c], b, req[c])]
    /\ pc' = [pc EXCEPT ![c] = "done"]
    /\ UNCHANGED <<client, pool, op, req, http_calls, wire, status>>

EmbedAnswers == EmbedBodies \cup ErrorBodies \cup {Unreadable}

(***************************************************************************)
(* Canonical messages (message::Message): a role and an ordered, non-empty *)
(* content; a content part is Text or something else.                      *)
(***************************************************************************)
Text(s) == [kind |-> "Text", text |-> s]
Image == [kind |-> "Image"]
Parts == {Text("a"), Text("b"), Image}

UserMessage(content) == [role |-> "User", content |-> content]
UserMessages == {UserMessage(cs) : cs \in SeqsUpTo(Parts, MaxParts) \ {<<>>}}
OtherMessages == {[role |-> r, content |-> <<Text("a")>>] : r \in {"Assistant", "Tool", "System"}}
Messages == UserMessages \cup OtherMessages

Min(S) == CHOOSE x \in S : \A y \in S : x <= y

ConversionError(text) == [kind |-> "ConversionError", payload |-> Raw(text)]
RequestError(text) == [kind |-> "RequestError", payload |-> Raw(text)]

\* Message::User of the wire format
WireUser(text) == [role |-> "USER", message |-> text, tool_calls |-> <<>>]

\* variant of try_from that also converts an Assistant message: its text parts
\* become CHATBOT messages of the wire format
try_from_AcceptsAssistant(message) ==
    IF message.role \in {"User", "Assistant"}
    THEN IF \E i \in 1..Len(message.content) : message.content[i].kind # "Text"
         THEN [ok |-> FALSE, err |-> ConversionError("Only text content is supported by Cohere")]
         ELSE [ok |-> TRUE,
               v |-> [i \in 1..Len(message.content) |->
                        [role |-> IF message.role = "User" THEN "USER" ELSE "CHATBOT",
                         message |-> message.content[i].text,
                         tool_calls |-> <<>>]]]
    ELSE [ok |-> FALSE, err |-> ConversionError("Only user messages are supported by Cohere")]

\* impl TryFrom<message::Message> for Vec<Message>
try_from(message) ==
    IF message.role = "User"
    THEN IF \E i \in 1..Len(message.content) : message.content[i].kind # "Text"
         THEN [ok |-> FALSE, err |-> ConversionError("Only text content is supported by Cohere")]
         ELSE [ok |-> TRUE,
               v |-> [i \in 1..Len(message.content) |-> WireUser(message.content[i].text)]]
    ELSE [ok |-> FALSE, err |-> ConversionError("Only user messages are supported by Cohere")]

RECURSIVE Flatten(_)
Flatten(ss) == IF ss = <<>> THEN <<>> ELSE Head(ss) \o Flatten(Tail(ss))

\* completion: the chat_history conversion; `collect` stops at the first Err
ConvertHistory(chat_history) ==
    LET bad == {i \in 1..Len(chat_history) : ~try_from(chat_history[i]).ok} IN
    IF bad # {}
    THEN [ok |-> FALSE, err |-> try_from(chat_history[Min(bad)]).err]
    ELSE [ok |-> TRUE,
          v |-> Flatten([i \in 1..Len(chat_history) |-> try_from(chat_history[i]).v])]

\* [String]::join("\n")
RECURSIVE Join(_)
Join(texts) ==
    IF texts = <<>> THEN ""
    ELSE IF Len(texts) = 1 THEN texts[1]
    ELSE texts[1] \o "\n" \o Join(Tail(texts))

\* completion: the prompt conversion
ConvertPrompt(prompt) ==
    IF prompt.role = "User"
    THEN IF \E i \in 1..Len(prompt.content) : prompt.content[i].kind # "Text"
         THEN [ok |-> FALSE, err |-> RequestError("Only text content is supported by Cohere")]
         ELSE [ok |-> TRUE,
               v |-> Join([i \in 1..Len(prompt.content) |-> prompt.content[i].text])]
    ELSE [ok |-> FALSE, err |-> RequestError("Only user messages are supported by Cohere")]

(***************************************************************************)
(* Tool definitions: impl From<completion::ToolDefinition> for             *)
(* ToolDefinition.                                                         *)
(***************************************************************************)
ProviderTypes == {"string", "number", "integer", "boolean", "array", "object"}

convert_type_str(type) == IF type \in ProviderTypes THEN type ELSE "string"

\* |t| t.as_str() != Some("null")
NotNullName(j) == ~(j.t = "str" /\ j.v = "null")

\* variant of convert_type that takes the first member of a union, "null" or not
convert_type_FirstMember(type) ==
    CASE type.t = "str" -> convert_type_str(type.v)
      [] type.t = "arr" ->
            convert_type_str(
                IF type.v # <<>> /\ type.v[1].t = "str" THEN type.v[1].v ELSE "string")
      [] OTHER -> "string"

convert_type(type) ==
    CASE type.t = "str" -> convert_type_str(type.v)
      [] type.t = "arr" ->
            LET found == {i \in 1..Len(type.v) : NotNullName(type.v[i])} IN
            convert_type_str(
                IF found # {} /\ type.v[Min(found)].t = "str"
                THEN type.v[Min(found)].v
                ELSE "string")
      [] OTHER -> "string"

\* variant of maybe_required that takes every property for required when the
\* schema gives no "required" list
maybe_required_DefaultAll(parameters) ==
    IF Has(parameters, "required") /\ parameters.v.required.t = "arr"
    THEN {parameters.v.required.v[i].v :
            i \in {n \in 1..Len(parameters.v.required.v) : parameters.v.required.v[n].t = "str"}}
    ELSE IF Has(parameters, "properties") /\ parameters.v.properties.t = "obj"
    THEN DOMAIN parameters.v.properties.v
    ELSE {}

\* the names listed by "required", when it is an array; no name otherwise
maybe_required(parameters) ==
    IF Has(parameters, "required") /\ parameters.v.required.t = "arr"
    THEN {parameters.v.required.v[i].v :
            i \in {n \in 1..Len(parameters.v.required.v) : parameters.v.required.v[n].t = "str"}}
    ELSE {}

\* the `expect` that fails on one property definition, "" when none does
ArgPanic(argdef) ==
    IF ~Has(argdef, "description") THEN "Argument description should exist"
    ELSE IF argdef.v.description.t # "str" THEN "Argument description should be a string"
    ELSE IF ~Has(argdef, "type") THEN "Argument type should exist"
    ELSE ""

Panic(text) == [kind |-> "Panic", payload |-> Raw(text)]

\* ToolDefinition::from: the provider definition, or the panic of a failed `expect`
\* (when several properties fail, the one met first in the map's iteration)
ToolDefinitionFrom(tool) ==
    LET parameters == tool.parameters IN
    IF ~Has(parameters, "properties")
    THEN [ok |-> FALSE, err |-> Panic("Tool properties should exist")]
    ELSE IF parameters.v.properties.t # "obj"
    THEN [ok |-> FALSE, err |-> Panic("Tool properties should be an object")]
    ELSE LET props == parameters.v.properties.v
             failing == {k \in DOMAIN props : ArgPanic(props[k]) # ""}
         IN  IF failing # {}
             THEN [ok |-> FALSE, err |-> Panic(ArgPanic(props[CHOOSE k \in failing : TRUE]))]
             ELSE [ok |-> TRUE,
                   v |-> [name |-> tool.name,
                          description |-> tool.description,
                          parameter_definitions |->
                              [k \in DOMAIN props |->
                                  [description |-> props[k].v.description.v,
                                   type |-> convert_type(props[k].v.type),
                                   required |-> k \in maybe_required(parameters)]]]]

\* #[derive(Serialize)] of ToolDefinition and Parameter
ToolDefinitionJson(td) ==
    JObj([name |-> JStr(td.name),
          description |-> JStr(td.description),
          parameter_definitions |->
              JObj([k \in DOMAIN td.parameter_definitions |->
                      JObj([description |-> JStr(td.parameter_definitions[k].description),
                            type |-> JStr(td.parameter_definitions[k].type),
                            required |-> JBool(td.parameter_definitions[k].required)])])])

\* #[derive(Serialize)] of Message, tagged by "role"
MessageJson(m) ==
    JObj([role |-> JStr(m.role), message |-> JStr(m.message), tool_calls |-> JArr(m.tool_calls)])

(***************************************************************************)
(* json_utils::merge(a, b): b merged over a.  Objects are merged key by    *)
(* key, recursively; anything else of b replaces what a holds.             *)
(***************************************************************************)
RECURSIVE merge(_, _)
merge(a, b) ==
    IF a.t = "obj" /\ b.t = "obj"
    THEN JObj([k \in DOMAIN a.v \cup DOMAIN b.v |->
                 IF k \notin DOMAIN b.v THEN a.v[k]
                 ELSE IF k \notin DOMAIN a.v THEN b.v[k]
                 ELSE merge(a.v[k], b.v[k])])
    ELSE b

(***************************************************************************)
(* CompletionModel::completion                                             *)
(***************************************************************************)
\* json!({...}): the body the adapter generates
GeneratedBody(r, chat_history, message, tools) ==
    JObj([model |-> JStr(COMMAND_R),
          preamble |-> OptStr(r.preamble),
          message |-> JStr(message),
          documents |-> JArr(r.documents),
          chat_history |-> JArr([i \in 1..Len(chat_history) |-> MessageJson(chat_history[i])]),
          temperature |-> OptNum(r.temperature),
          tools |-> JArr([i \in 1..Len(tools) |-> ToolDefinitionJson(tools[i])])])

\* variant of SentBody with the arguments of merge exchanged: the generated values win
SentBody_GeneratedWins(request, additional_params) ==
    IF additional_params.some THEN merge(additional_params.v, request) ELSE request

\* the body handed to `.json(...)`: merged with additional_params when present
SentBody(request, additional_params) ==
    IF additional_params.some THEN merge(request, additional_params.v) ELSE request

\* the synchronous part of completion, up to `.send()`: the error it returns,
\* the panic it dies of, or the body it sends
Prepare(r) ==
    LET h == ConvertHistory(r.chat_history)
        m == ConvertPrompt(r.prompt)
        ts == [i \in 1..Len(r.tools) |-> ToolDefinitionFrom(r.tools[i])]
        failing == {i \in 1..Len(r.tools) : ~ts[i].ok}
    IN  IF ~h.ok THEN [ok |-> FALSE, err |-> h.err]
        ELSE IF ~m.ok THEN [ok |-> FALSE, err |-> m.err]
        ELSE IF failing # {} THEN [ok |-> FALSE, err |-> ts[Min(failing)].err]
        ELSE [ok |-> TRUE,
              generated |-> GeneratedBody(r, h.v, m.v, [i \in 1..Len(r.tools) |-> ts[i].v]),
              v |-> SentBody(GeneratedBody(r, h.v, m.v, [i \in 1..Len(r.tools) |-> ts[i].v]),
                             r.additional_params)]

completion(c, r) ==
    /\ pc[c] = "idle"
    /\ op' = [op EXCEPT ![c] = "completion"]
    /\ req' = [req EXCEPT ![c] = r]
    /\ LET p == Prepare(r) IN
       IF p.ok
       THEN /\ wire' = [wire EXCEPT ![c] = [request |-> post(client, "/v1/chat"), json |-> p.v]]
            /\ http_calls' = [http_calls EXCEPT ![c] = @ + 1]
            /\ pc' = [pc EXCEPT ![c] = "sending"]
            /\ UNCHANGED result
       ELSE /\ result' = [result EXCEPT ![c] = p.err]
            /\ pc' = [pc EXCEPT ![c] = IF p.err.kind = "Panic" THEN "panicked" ELSE "done"]
            /\ UNCHANGED <<wire, http_calls>>
    /\ UNCHANGED <<client, pool, status, body>>

\* variant of completion_sent that sends the request again after a transport failure
completion_sent_Retrying(c, answer) ==
    /\ pc[c] = "sending" /\ op[c] = "completion"
    /\ IF answer.err
       THEN /\ http_calls[c] < 3
            /\ http_calls' = [http_calls EXCEPT ![c] = @ + 1]
            /\ UNCHANGED <<pc, status, result>>
       ELSE /\ status' = [status EXCEPT ![c] = answer.status]
            /\ pc' = [pc EXCEPT ![c] = "reading"]
            /\ UNCHANGED <<result, http_calls>>
    /\ UNCHANGED <<client, pool, op, req, wire, body>>

\* `.send().await?` returns
completion_sent(c, answer) ==
    /\ pc[c] = "sending" /\ op[c] = "completion"
    /\ IF answer.err
       THEN /\ result' = [result EXCEPT ![c] = HttpError]
            /\ pc' = [pc EXCEPT ![c] = "done"]
            /\ UNCHANGED status
       ELSE /\ status' = [status EXCEPT ![c] = answer.status]
            /\ pc' = [pc EXCEPT ![c] = "reading"]
            /\ UNCHANGED result
    /\ UNCHANGED <<client, pool, op, req, http_calls, wire, body>>

\* struct ToolCall
IsToolCall(j) == j.t = "obj" /\ Has(j, "name") /\ j.v.name.t = "str" /\ Has(j, "parameters")

\* struct CompletionResponse, as serde decodes it from a JSON object (the
\* defaulted lists other than tool_calls are only checked to be lists)
IsCompletionResponse(j) ==
    /\ j.t = "obj"
    /\ Has(j, "text") /\ j.v.text.t = "str"
    /\ Has(j, "generation_id") /\ j.v.generation_id.t = "str"
    /\ Has(j, "finish_reason") /\ j.v.finish_reason.t = "str"
    /\ (Has(j, "tool_calls") =>
            /\ j.v.tool_calls.t = "arr"
            /\ \A i \in 1..Len(j.v.tool_calls.v) : IsToolCall(j.v.tool_calls.v[i]))
    /\ \A k \in {"citations", "documents", "search_queries", "search_results", "chat_history"} :
            Has(j, k) => j.v[k].t = "arr"
    /\ (Has(j, "is_search_required") => j.v.is_search_required.t \in {"bool", "null"})

\* response.json::<ApiResponse<CompletionResponse>>()
DecodeCompletion(j) ==
    IF IsCompletionResponse(j)
    THEN [tag |-> "Ok",
          text |-> j.v.text.v,
          tool_calls |->
              IF Has(j, "tool_calls")
              THEN [i \in 1..Len(j.v.tool_calls.v) |->
                        [name |-> j.v.tool_calls.v[i].v.name.v,
                         parameters |-> j.v.tool_calls.v[i].v.parameters]]
              ELSE <<>>]
    ELSE IF IsApiErrorResponse(j)
    THEN [tag |-> "Err", message |-> j.v.message.v]
    ELSE [tag |-> "Fail"]

\* AssistantContent::tool_call(id, name, arguments) and AssistantContent::text
AssistantToolCall(id, name, arguments) ==
    [kind |-> "ToolCall", id |-> id, name |-> name, arguments |-> arguments]
AssistantText(text) == [kind |-> "Text", text |-> text]

\* variant of ModelResponse that keeps a non-empty text in front of the tool calls
ModelResponse_KeepsText(response) ==
    (IF response.text # "" \/ response.tool_calls = <<>>
     THEN <<AssistantText(response.text)>> ELSE <<>>)
    \o [i \in 1..Len(response.tool_calls) |->
            AssistantToolCall(response.tool_calls[i].name,
                              response.tool_calls[i].name,
                              response.tool_calls[i].parameters)]

\* variant of ModelResponse that lists the tool calls last to first
ModelResponse_Reversed(response) ==
    IF response.tool_calls # <<>>
    THEN [i \in 1..Len(response.tool_calls) |->
            AssistantToolCall(response.tool_calls[Len(response.tool_calls) + 1 - i].name,
                              response.tool_calls[Len(response.tool_calls) + 1 - i].name,
                              response.tool_calls[Len(response.tool_calls) + 1 - i].parameters)]
    ELSE <<AssistantText(response.text)>>

\* the `model_response` of From<CompletionResponse>
ModelResponse(response) ==
    IF response.tool_calls # <<>>
    THEN [i \in 1..Len(response.tool_calls) |->
            AssistantToolCall(response.tool_calls[i].name,
                              response.tool_calls[i].name,
                              response.tool_calls[i].parameters)]
    ELSE <<AssistantText(response.text)>>

\* impl From<CompletionResponse> for completion::CompletionResponse:
\* OneOrMany::many fails on an empty list and the `expect` then panics
CompletionResponseFrom(response) ==
    LET model_response == ModelResponse(response) IN
    IF model_response = <<>>
    THEN Panic("There is atleast one content")
    ELSE [kind |-> "Ok",
          payload |-> [choice |-> model_response,
                       raw_response |-> [text |-> response.text,
                                         tool_calls |-> response.tool_calls]]]

\* variant of CompletionResult that decodes the body whatever the status
CompletionResult_IgnoresStatus(st, b) ==
    IF b = Unreadable THEN HttpError
    ELSE LET r == DecodeCompletion(b) IN
         CASE r.tag = "Ok" -> CompletionResponseFrom(r)
           [] r.tag = "Err" -> ProviderError(Raw(r.message))
           [] OTHER -> IF is_success(st) THEN HttpError ELSE ProviderError(b)

\* the value completion returns once the body b has been read
CompletionResult(st, b) ==
    IF is_success(st)
    THEN IF b = Unreadable THEN HttpError
         ELSE LET r == DecodeCompletion(b) IN
              CASE r.tag = "Ok" -> CompletionResponseFrom(r)
                [] r.tag = "Err" -> ProviderError(Raw(r.message))
                [] OTHER -> HttpError
    ELSE IF b = Unreadable THEN HttpError ELSE ProviderError(b)

\* variant of completion_body that keeps the answer in a place all calls share:
\* the result it writes is seen by every call
completion_body_SharedResult(c, b) ==
    /\ pc[c] = "reading" /\ op[c] = "completion"
    /\ body' = [body EXCEPT ![c] = b]
    /\ result' = [d \in Calls |-> CompletionResult(status[c], b)]
    /\ pc' = [pc EXCEPT ![c] =
                IF CompletionResult(status[c], b).kind = "Panic" THEN "panicked" ELSE "done"]
    /\ UNCHANGED <<client, pool, op, req, http_calls, wire, status>>

\* `.json().await?` / `.text().await?` returns
completion_body(c, b) ==
    /\ pc[c] = "reading" /\ op[c] = "completion"
    /\ body' = [body EXCEPT ![c] = b]
    /\ result' = [result EXCEPT ![c] = CompletionResult(status[c], b)]
    /\ pc' = [pc EXCEPT ![c] =
                IF CompletionResult(status[c], b).kind = "Panic" THEN "panicked" ELSE "done"]
    /\ UNCHANGED <<client, pool, op, req, http_calls, wire, status>>

(***************************************************************************)
(* Completion answers of the provider.                                     *)
(***************************************************************************)
ToolCallJson(name, parameters) == JObj([name |-> JStr(name), parameters |-> parameters])
WireToolCalls ==
    {ToolCallJson("search", JObj([q |-> JStr("rust")])), ToolCallJson("add", EmptyObj)}

CompletionPayload(text, tool_calls) ==
    JObj([text |-> JStr(text), generation_id |-> JStr("g1"), finish_reason |-> JStr("COMPLETE"),
          tool_calls |-> JArr(tool_calls)])

CompletionBodies ==
    {CompletionPayload("hello", tcs) : tcs \in SeqsUpTo(WireToolCalls, MaxToolCalls)}
    \cup {CompletionPayload("", tcs) : tcs \in SeqsUpTo(WireToolCalls, 1)}
    \cup {JObj([text |-> JStr(t), generation_id |-> JStr("g2"),
                finish_reason |-> JStr("COMPLETE")]) : t \in {"", "hello"}}
    \cup {JObj([text |-> JStr("hello"), generation_id |-> JStr("g3"),
                finish_reason |-> JStr("COMPLETE"), message |-> JStr("both shapes")]),
          JObj([generation_id |-> JStr("g4"), finish_reason |-> JStr("COMPLETE")]),
          JObj([text |-> JStr("hello"), generation_id |-> JStr("g5"),
                finish_reason |-> JStr("COMPLETE"), tool_calls |-> JNull]),
          JObj([text |-> JStr("hello"), generation_id |-> JStr("g6"),
                finish_reason |-> JStr("COMPLETE"),
                tool_calls |-> JArr(<<JObj([parameters |-> EmptyObj])>>)])}

CompletionAnswers ==
    CompletionBodies \cup ErrorBodies \cup {Unreadable}
    \cup {EmbeddingPayload(<<Vec1>>, <<>>)}

(***************************************************************************)
(* Completion requests of the callers.                                     *)
(***************************************************************************)
Property(type) == JObj([type |-> type, description |-> JStr("the value")])
Tool(parameters) ==
    [name |-> "search", description |-> "Search the web", parameters |-> parameters]

UnionMembers == {JStr("null"), JStr("number"), JStr("date"), JNull, JNum(1)}
TypeValues ==
    {JStr(n) : n \in ProviderTypes \cup {"null", "date"}}
    \cup {JNum(1), JNull, JObj([enum |-> JArr(<<>>)])}
    \cup {JArr(ms) : ms \in SeqsUpTo(UnionMembers, MaxUnion)}

\* one property x of every type value
TypedTools ==
    {Tool(JObj([properties |-> JObj([x |-> Property(ty)]),
                required |-> JArr(<<JStr("x")>>)])) : ty \in TypeValues}

\* two properties, with the ways `required` may be given
RequiredValues ==
    {JArr(<<>>), JArr(<<JStr("x")>>), JArr(<<JStr("y"), JStr("x")>>),
     JArr(<<JStr("y"), JStr("z")>>), JArr(<<JNum(1), JStr("x")>>), JStr("x")}
TwoProperties == JObj([x |-> Property(JStr("string")), y |-> Property(JStr("integer"))])
RequiredTools ==
    {Tool(JObj([properties |-> TwoProperties]))}
    \cup {Tool(JObj([properties |-> TwoProperties, required |-> rq])) : rq \in RequiredValues}
    \cup {Tool(JObj([properties |-> EmptyObj]))}

\* definitions the provider format has no place for
UnrepresentableTools ==
    {Tool(JObj([type |-> JStr("object")])),
     Tool(JNull),
     Tool(JObj([properties |-> JArr(<<>>)])),
     Tool(JObj([properties |-> JObj([x |-> JObj([type |-> JStr("string")])])])),
     Tool(JObj([properties |-> JObj([x |-> JObj([type |-> JStr("string"),
                                                  description |-> JNum(1)])])])),
     Tool(JObj([properties |-> JObj([x |-> JObj([description |-> JStr("the value")])])])),
     Tool(JObj([properties |-> JObj([x |-> JStr("string")])]))}

GoodTool == Tool(JObj([properties |-> TwoProperties, required |-> JArr(<<JStr("x")>>)]))
BadTool == Tool(JObj([type |-> JStr("object")]))
\* a second tool, without a `required` list
OtherTool ==
    [name |-> "add", description |-> "Add two numbers",
     parameters |-> JObj([properties |-> JObj([x |-> Property(JStr("number"))])])]

ToolLists ==
    {<<>>}
    \cup {<<t>> : t \in TypedTools \cup RequiredTools \cup UnrepresentableTools}
    \cup {<<GoodTool, BadTool>>, <<GoodTool, GoodTool>>, <<GoodTool, OtherTool>>}

AdditionalParams ==
    {None,
     Some(EmptyObj),
     Some(JObj([temperature |-> JNum(9)])),
     Some(JObj([max_tokens |-> JNum(100)])),
     Some(JObj([temperature |-> JNum(9), k |-> JNum(3)])),
     Some(JObj([message |-> JStr("override"), tools |-> JArr(<<>>)])),
     Some(JObj([chat_history |-> JObj([role |-> JStr("USER")]), preamble |-> JNull]))}

Request(history, prompt, tools, preamble, temperature, params) ==
    [chat_history |-> history, prompt |-> prompt, tools |-> tools, documents |-> <<>>,
     preamble |-> preamble, temperature |-> temperature, additional_params |-> params]

TextPrompt == UserMessage(<<Text("a"), Text("b")>>)
ImagePrompt == UserMessage(<<Text("a"), Image>>)

\* every history against a few prompts; every prompt against a few histories
MessageRequests ==
    {Request(h, p, <<>>, None, None, None) :
        h \in SeqsUpTo(Messages, MaxHistory),
        p \in {TextPrompt, ImagePrompt}}
    \cup {Request(h, p, ts, None, None, None) :
        h \in {<<>>, <<UserMessage(<<Image>>)>>, <<UserMessage(<<Text("b")>>)>>},
        p \in Messages,
        ts \in {<<>>, <<BadTool>>}}

\* every tool list
ToolRequests ==
    {Request(<<>>, TextPrompt, ts, None, None, None) : ts \in ToolLists}

\* every additional_params against the generated fields
ParamRequests ==
    {Request(h, TextPrompt, ts, pre, temp, ap) :
        h \in {<<>>, <<UserMessage(<<Text("b")>>)>>},
        ts \in {<<>>, <<GoodTool>>},
        pre \in {None, Some("be brief")},
        temp \in {None, Some(5)},
        ap \in AdditionalParams}

CompletionRequests == MessageRequests \cup ToolRequests \cup ParamRequests

\* the requests two concurrent calls draw from
FewCompletionRequests ==
    {Request(h, p, ts, None, Some(5), ap) :
        h \in {<<>>, <<UserMessage(<<Image>>)>>},
        p \in {TextPrompt},
        ts \in {<<>>, <<BadTool>>},
        ap \in {None, Some(JObj([temperature |-> JNum(9)]))}}

RequestPool == IF pool = "all" THEN CompletionRequests ELSE FewCompletionRequests

\* the documents and the answers two concurrent calls draw from
FewDocuments == {<<>>, <<"a">>, <<"b", "a">>}
FewEmbedAnswers ==
    {EmbeddingPayload(<<Vec1>>, <<>>), EmbeddingPayload(<<Vec2, Vec1>>, <<>>),
     JObj([message |-> JStr("invalid api token")]), Unreadable}
FewCompletionAnswers ==
    {CompletionPayload("hello", <<>>),
     CompletionPayload("", <<ToolCallJson("add", EmptyObj)>>),
     JObj([message |-> JStr("invalid api token")]), Raw("<html>Bad Gateway</html>"), Unreadable}

DocumentPool == IF pool = "all" THEN Documents ELSE FewDocuments
EmbedAnswerPool == IF pool = "all" THEN EmbedAnswers ELSE FewEmbedAnswers
CompletionAnswerPool == IF pool = "all" THEN CompletionAnswers ELSE FewCompletionAnswers

(***************************************************************************)
(* Specification.                                                          *)
(***************************************************************************)
\* the state after Client::from_url, with one caller about to call
Init ==
    /\ client = from_url("API_KEY", COHERE_API_BASE_URL)
    /\ pool = "all"
    /\ pc = [c \in Calls |-> IF c = "c1" THEN "idle" ELSE "off"]
    /\ op = [c \in Calls |-> "none"]
    /\ req = [c \in Calls |-> NoValue]
    /\ http_calls = [c \in Calls |-> 0]
    /\ wire = [c \in Calls |-> NoWire]
    /\ status = [c \in Calls |-> 0]
    /\ body = [c \in Calls |-> NoValue]
    /\ result = [c \in Calls |-> NoValue]

\* the guards are repeated in front of the quantifiers so that the inputs are
\* only enumerated for a call that is at that point
Next ==
    \E c \in Calls :
        \/ pc[c] = "idle" /\ \E r \in RequestPool : completion(c, r)
        \/ pc[c] = "sending" /\ \E a \in SendAnswers : completion_sent(c, a)
        \/ pc[c] = "reading" /\ \E b \in CompletionAnswerPool : completion_body(c, b)
        \/ pc[c] = "idle" /\ \E d \in DocumentPool : embed_texts(c, d)
        \/ pc[c] = "sending" /\ \E a \in SendAnswers : embed_texts_sent(c, a)
        \/ pc[c] = "reading" /\ \E b \in EmbedAnswerPool : embed_texts_body(c, b)

\* one call at a time, drawn from every request
Spec == Init /\ [][Next]_vars

\* two calls on models derived from the same client, interleaved at the points
\* where a call is suspended
InitConcurrent ==
    /\ client = from_url("API_KEY", COHERE_API_BASE_URL)
    /\ pool = "few"
    /\ pc = [c \in Calls |-> "idle"]
    /\ op = [c \in Calls |-> "none"]
    /\ req = [c \in Calls |-> NoValue]
    /\ http_calls = [c \in Calls |-> 0]
    /\ wire = [c \in Calls |-> NoWire]
    /\ status = [c \in Calls |-> 0]
    /\ body = [c \in Calls |-> NoValue]
    /\ result = [c \in Calls |-> NoValue]

SpecConcurrent == InitConcurrent /\ [][Next]_vars

(***************************************************************************)
(* Properties.                                                             *)
(***************************************************************************)
Started(c, o) == op[c] = o /\ pc[c] \in {"sending", "reading", "done", "panicked"}
Answered(c) == pc[c] = "done" /\ status[c] # 0

NonText(message) == \E i \in 1..Len(message.content) : message.content[i].kind # "Text"
HasNonTextPart(r) ==
    NonText(r.prompt) \/ \E i \in 1..Len(r.chat_history) : NonText(r.chat_history[i])

\* C1: a completion request whose prompt or history holds a non-text part returns
\* a ConversionError, and no HTTP request has been issued when it returns.
C1_UnsupportedContentIsConversionError ==
    \A c \in Calls :
        (Started(c, "completion") /\ HasNonTextPart(req[c])) =>
            /\ pc[c] = "done"
            /\ result[c].kind = "ConversionError"
            /\ http_calls[c] = 0

\* The part of C1 about the order of events: with a non-text part anywhere in the
\* request the call ends in an error before any HTTP request is issued.
UnsupportedContentFailsBeforeSend ==
    \A c \in Calls :
        (Started(c, "completion") /\ HasNonTextPart(req[c])) =>
            /\ pc[c] = "done"
            /\ result[c].kind \in {"ConversionError", "RequestError"}
            /\ http_calls[c] = 0

\* the answer of call c is a 2xx whose body decodes as the embedding success payload
EmbedSuccess(c) ==
    /\ op[c] = "embed_texts" /\ Answered(c)
    /\ is_success(status[c])
    /\ IsEmbeddingResponse(body[c])

\* C2: embed_texts with N documents answered by a success payload of M # N vectors
\* returns DocumentError, never a list of embeddings.
C2_CardinalityMismatchIsDocumentError ==
    \A c \in Calls :
        (EmbedSuccess(c) /\ Len(body[c].v.embeddings.v) # Len(req[c])) =>
            result[c].kind = "DocumentError"

C2_Witness ==
    \E c \in Calls :
        /\ EmbedSuccess(c)
        /\ Len(req[c]) = 1
        /\ Len(body[c].v.embeddings.v) = 2
        /\ result[c].kind = "DocumentError"

\* C3: an Ok result of embed_texts has one entry per input document, entry i holding
\* the i-th document and the i-th vector of the answer, whatever `texts` holds.
C3_EmbeddingsPairedInOrder ==
    \A c \in Calls :
        (op[c] = "embed_texts" /\ pc[c] = "done" /\ result[c].kind = "Ok") =>
            /\ EmbedSuccess(c)
            /\ Len(result[c].payload) = Len(req[c])
            /\ \A i \in 1..Len(req[c]) :
                /\ result[c].payload[i].document = req[c][i]
                /\ Len(result[c].payload[i].vec) = Len(body[c].v.embeddings.v[i].v)
                /\ \A k \in 1..Len(result[c].payload[i].vec) :
                     result[c].payload[i].vec[k] = body[c].v.embeddings.v[i].v[k].v

C3_Witness ==
    \E c \in Calls :
        /\ op[c] = "embed_texts" /\ pc[c] = "done" /\ result[c].kind = "Ok"
        /\ req[c] = <<"a", "b">>
        /\ body[c].v.texts = JArr(<<JStr("b"), JStr("a")>>)
        /\ body[c].v.embeddings = JArr(<<Vec2, Vec1>>)
        /\ result[c].payload =
              <<[document |-> "a", vec |-> <<3>>], [document |-> "b", vec |-> <<1, 2>>]>>

\* the answer of call c is a 2xx whose body decodes as the completion success payload
CompletionSuccess(c) ==
    /\ op[c] = "completion" /\ Answered(c)
    /\ is_success(status[c])
    /\ IsCompletionResponse(body[c])

WireToolCallCount(j) == IF Has(j, "tool_calls") THEN Len(j.v.tool_calls.v) ELSE 0

\* C4: a success payload with tool calls gives a choice of ToolCall entries only,
\* even with a non-empty text; one without tool calls gives exactly one Text entry
\* holding the wire text; the choice is never empty.
C4_ToolCallsExcludeText ==
    \A c \in Calls :
        CompletionSuccess(c) =>
            /\ result[c].kind = "Ok"
            /\ Len(result[c].payload.choice) >= 1
            /\ (WireToolCallCount(body[c]) >= 1 =>
                    \A i \in 1..Len(result[c].payload.choice) :
                        result[c].payload.choice[i].kind = "ToolCall")
            /\ (WireToolCallCount(body[c]) = 0 =>
                    result[c].payload.choice = <<[kind |-> "Text", text |-> body[c].v.text.v]>>)

C4_Witness ==
    \E c \in Calls :
        /\ CompletionSuccess(c)
        /\ body[c].v.text.v = "hello"
        /\ WireToolCallCount(body[c]) = 2
        /\ Len(result[c].payload.choice) = 2
        /\ \A i \in 1..2 : result[c].payload.choice[i].kind = "ToolCall"

\* the request of call c went out
Sent(c) == op[c] = "completion" /\ pc[c] \in {"sending", "reading", "done"} /\ http_calls[c] >= 1

\* C5: with additional_params the sent body holds, for every key of both, the
\* caller's value, and every other generated key unchanged; without
\* additional_params the generated body is sent as it is.
C5_AdditionalParamsOverride ==
    \A c \in Calls :
        Sent(c) =>
            LET generated == Prepare(req[c]).generated
                params == req[c].additional_params
                sent == wire[c].json
            IN  IF params.some
                THEN /\ sent.t = "obj"
                     /\ DOMAIN generated.v \subseteq DOMAIN sent.v
                     /\ \A k \in DOMAIN generated.v :
                            sent.v[k] = IF k \in DOMAIN params.v.v
                                        THEN params.v.v[k] ELSE generated.v[k]
                ELSE sent = generated

C5_Witness ==
    \E c \in Calls :
        /\ Sent(c)
        /\ req[c].temperature = Some(5)
        /\ req[c].additional_params = Some(JObj([temperature |-> JNum(9), k |-> JNum(3)]))
        /\ wire[c].json.v.temperature = JNum(9)
        /\ wire[c].json.v.message = JStr("a\nb")

\* C6: a non-2xx answer whose body can be read makes completion and embed_texts
\* return ProviderError carrying the body text unmodified; it never yields Ok.
C6_NonSuccessStatusIsProviderError ==
    \A c \in Calls :
        (Answered(c) /\ ~is_success(status[c])) =>
            /\ result[c].kind # "Ok"
            /\ (body[c] # Unreadable => result[c] = [kind |-> "ProviderError", payload |-> body[c]])

C6_Witness ==
    \E c \in Calls :
        /\ op[c] = "completion" /\ Answered(c)
        /\ status[c] = 500
        /\ body[c] = CompletionPayload("hello", <<>>)
        /\ result[c] = [kind |-> "ProviderError", payload |-> CompletionPayload("hello", <<>>)]

\* C7: a 2xx answer to completion whose body parses neither as the success payload
\* nor as the error payload returns ProviderError carrying the raw body text.
C7_UnparseableBodyIsProviderError ==
    \A c \in Calls :
        (/\ op[c] = "completion" /\ Answered(c)
         /\ is_success(status[c])
         /\ body[c] # Unreadable
         /\ ~IsCompletionResponse(body[c])
         /\ ~IsApiErrorResponse(body[c])) =>
            result[c] = [kind |-> "ProviderError", payload |-> body[c]]

\* C8: every failure of completion is returned as a typed error, never as a panic.
C8_CompletionNeverPanics ==
    \A c \in Calls : op[c] = "completion" => pc[c] # "panicked"

\* C9: a call of completion or embed_texts issues at most one HTTP request, and
\* none once it has returned.
C9_AtMostOneRequest ==
    \A c \in Calls :
        /\ http_calls[c] <= 1
        /\ (pc[c] \in {"off", "idle"} => http_calls[c] = 0)
        /\ (pc[c] \in {"sending", "reading"} => http_calls[c] = 1)

C9_Witness ==
    \E c \in Calls :
        /\ pc[c] = "done" /\ status[c] = 0
        /\ result[c].kind = "HttpError"
        /\ http_calls[c] = 1

\* the provider type the fixed policy gives a JSON `type`
PolicyType(type) ==
    IF type.t = "str"
    THEN IF type.v \in {"string", "number", "integer", "boolean", "array", "object"}
         THEN type.v ELSE "string"
    ELSE IF type.t = "arr"
    THEN LET rest == {i \in 1..Len(type.v) : type.v[i] # JStr("null")} IN
         IF rest = {} THEN "string"
         ELSE LET first == type.v[CHOOSE i \in rest : \A j \in rest : i <= j] IN
              IF first.t # "str" THEN "string"
              ELSE IF first.v \in {"string", "number", "integer", "boolean", "array", "object"}
              THEN first.v ELSE "string"
    ELSE "string"

\* the tools of call c went out as the adapter generated them
ToolsSent(c) ==
    /\ Sent(c)
    /\ ~(req[c].additional_params.some /\ Has(req[c].additional_params.v, "tools"))

\* C10: the type sent for a property is the one the fixed policy gives its JSON
\* `type`, and is always one of the six provider types.
C10_TypeDegradation ==
    \A c \in Calls :
        ToolsSent(c) =>
            \A i \in 1..Len(req[c].tools) :
                LET props == req[c].tools[i].parameters.v.properties.v
                    sent == wire[c].json.v.tools.v[i].v.parameter_definitions.v
                IN  \A k \in DOMAIN props :
                        /\ sent[k].v.type.t = "str"
                        /\ sent[k].v.type.v = PolicyType(props[k].v.type)
                        /\ sent[k].v.type.v \in
                              {"string", "number", "integer", "boolean", "array", "object"}

C10_Witness ==
    \E c \in Calls :
        /\ ToolsSent(c)
        /\ Len(req[c].tools) = 1
        /\ Has(req[c].tools[1].parameters.v.properties, "x")
        /\ req[c].tools[1].parameters.v.properties.v.x.v.type
              = JArr(<<JStr("null"), JStr("number")>>)
        /\ wire[c].json.v.tools.v[1].v.parameter_definitions.v.x.v.type = JStr("number")

\* the names the canonical `required` list holds (none when there is no list)
RequiredNames(parameters) ==
    IF Has(parameters, "required") /\ parameters.v.required.t = "arr"
    THEN {k \in {"x", "y", "z"} :
            \E i \in 1..Len(parameters.v.required.v) : parameters.v.required.v[i] = JStr(k)}
    ELSE {}

\* C11: the provider definition keeps the name and the description, has one
\* parameter per entry of `properties` under the same key, and flags a parameter
\* required exactly when its name is in the canonical `required` list.
C11_ToolDefinitionPreserved ==
    \A c \in Calls :
        ToolsSent(c) =>
            /\ Len(wire[c].json.v.tools.v) = Len(req[c].tools)
            /\ \A i \in 1..Len(req[c].tools) :
                LET tool == req[c].tools[i]
                    sent == wire[c].json.v.tools.v[i].v
                IN  /\ sent.name = JStr(tool.name)
                    /\ sent.description = JStr(tool.description)
                    /\ DOMAIN sent.parameter_definitions.v = DOMAIN tool.parameters.v.properties.v
                    /\ \A k \in DOMAIN tool.parameters.v.properties.v :
                         sent.parameter_definitions.v[k].v.required
                            = JBool(k \in RequiredNames(tool.parameters))

C11_Witness ==
    \E c \in Calls :
        /\ ToolsSent(c)
        /\ req[c].tools = <<GoodTool, OtherTool>>
        /\ wire[c].json.v.tools.v[1].v.name = JStr("search")
        /\ wire[c].json.v.tools.v[2].v.name = JStr("add")
        /\ wire[c].json.v.tools.v[1].v.parameter_definitions.v.x.v.required = JBool(TRUE)
        /\ wire[c].json.v.tools.v[1].v.parameter_definitions.v.y.v.required = JBool(FALSE)
        /\ wire[c].json.v.tools.v[2].v.parameter_definitions.v.x.v.required = JBool(FALSE)

\* what call c returns when it runs alone with its own request and its own answer
Alone(c) ==
    IF op[c] = "completion"
    THEN IF ~Prepare(req[c]).ok THEN Prepare(req[c]).err
         ELSE IF status[c] = 0 THEN HttpError
         ELSE CompletionResult(status[c], body[c])
    ELSE IF status[c] = 0 THEN HttpError
         ELSE EmbedResult(status[c], body[c], req[c])

\* the request call c hands to the transport when it runs alone
AloneWire(c) ==
    IF op[c] = "completion"
    THEN [request |-> post(from_url("API_KEY", COHERE_API_BASE_URL), "/v1/chat"),
          json |-> Prepare(req[c]).v]
    ELSE [request |-> post(from_url("API_KEY", COHERE_API_BASE_URL), "/v1/embed"),
          json |-> EmbedRequestBody(req[c])]

\* C12: with two calls interleaved, the request and the result of each call are
\* those of the call running alone on its own request and answer, a call that
\* has not returned has no result, and the client's configuration stays what
\* construction made it.
C12_ConcurrentCallsIndependent ==
    /\ client = from_url("API_KEY", COHERE_API_BASE_URL)
    /\ \A c \in Calls :
        /\ (pc[c] \in {"done", "panicked"} => result[c] = Alone(c))
        /\ (pc[c] \in {"idle", "sending", "reading"} => result[c] = NoValue)
        /\ (http_calls[c] >= 1 => wire[c] = AloneWire(c))
        /\ (http_calls[c] = 0 => wire[c] = NoWire)

C12_Witness ==
    /\ pc["c1"] = "done" /\ pc["c2"] = "done"
    /\ op["c1"] = "completion" /\ op["c2"] = "completion"
    /\ req["c1"] # req["c2"]
    /\ result["c1"].kind = "Ok"
    /\ result["c2"].kind = "ProviderError"
    /\ status["c1"] = 200 /\ status["c2"] = 500
    /\ client = from_url("API_KEY", COHERE_API_BASE_URL)

\* the tool calls of a success payload as the provider wrote them
WireCalls(j) == j.v.tool_calls.v

\* C13: a success payload with k >= 1 tool calls gives a choice of exactly k
\* ToolCall entries in the wire order; entry i has the name of wire call i as
\* its id and as its name and the parameters of wire call i as its arguments,
\* so two calls of one tool carry the same id.
C13_ToolCallsInWireOrder ==
    \A c \in Calls :
        (CompletionSuccess(c) /\ WireToolCallCount(body[c]) >= 1) =>
            /\ result[c].kind = "Ok"
            /\ Len(result[c].payload.choice) = Len(WireCalls(body[c]))
            /\ \A i \in 1..Len(WireCalls(body[c])) :
                result[c].payload.choice[i] =
                    [kind |-> "ToolCall",
                     id |-> WireCalls(body[c])[i].v.name.v,
                     name |-> WireCalls(body[c])[i].v.name.v,
                     arguments |-> WireCalls(body[c])[i].v.parameters]

C13_Witness ==
    \E c \in Calls :
        /\ CompletionSuccess(c)
        /\ WireToolCallCount(body[c]) = 2
        /\ WireCalls(body[c])[1] = WireCalls(body[c])[2]
        /\ Len(result[c].payload.choice) = 2
        /\ result[c].payload.choice[1].id = "search"
        /\ result[c].payload.choice[2].id = "search"

\* a canonical User message of text parts only
UserText(m) == m.role = "User" /\ \A i \in 1..Len(m.content) : m.content[i].kind = "Text"

\* the number of content parts of the history messages in front of message h
RECURSIVE PartsBefore(_, _)
PartsBefore(history, h) ==
    IF h <= 1 THEN 0 ELSE PartsBefore(history, h - 1) + Len(history[h - 1].content)

\* the caller's additional_params replace the chat_history of the body
OverridesHistory(r) ==
    r.additional_params.some /\ Has(r.additional_params.v, "chat_history")

\* C14: a completion call sends a request only when every history message and
\* the prompt are User messages of text parts; the chat_history it sends holds,
\* for history message h and its part p, at position (parts before h) + p, a
\* USER message with that text and an empty tool_calls list, and nothing else;
\* a history entry or a prompt that is not a User message ends the call with
\* an error and no request.
C14_OnlyUserTextIsSent ==
    \A c \in Calls :
        Started(c, "completion") =>
            /\ (http_calls[c] >= 1 =>
                    /\ UserText(req[c].prompt)
                    /\ \A h \in 1..Len(req[c].chat_history) : UserText(req[c].chat_history[h]))
            /\ ((http_calls[c] >= 1 /\ ~OverridesHistory(req[c])) =>
                    /\ wire[c].json.v.chat_history.t = "arr"
                    /\ Len(wire[c].json.v.chat_history.v) =
                            PartsBefore(req[c].chat_history, Len(req[c].chat_history) + 1)
                    /\ \A h \in 1..Len(req[c].chat_history) :
                        \A p \in 1..Len(req[c].chat_history[h].content) :
                            wire[c].json.v.chat_history.v[PartsBefore(req[c].chat_history, h) + p] =
                                JObj([role |-> JStr("USER"),
                                      message |-> JStr(req[c].chat_history[h].content[p].text),
                                      tool_calls |-> JArr(<<>>)]))
            /\ ((\/ req[c].prompt.role # "User"
                 \/ \E h \in 1..Len(req[c].chat_history) : req[c].chat_history[h].role # "User") =>
                    /\ pc[c] = "done"
                    /\ result[c].kind \in {"ConversionError", "RequestError"}
                    /\ http_calls[c] = 0
                    /\ wire[c] = NoWire)

C14_Witness ==
    \E c \in Calls :
        /\ Started(c, "completion") /\ http_calls[c] = 1
        /\ req[c].chat_history =
                <<UserMessage(<<Text("a"), Text("b")>>), UserMessage(<<Text("b")>>)>>
        /\ ~OverridesHistory(req[c])
        /\ Len(wire[c].json.v.chat_history.v) = 3
        /\ wire[c].json.v.chat_history.v[1].v.message = JStr("a")
        /\ wire[c].json.v.chat_history.v[2].v.message = JStr("b")
        /\ wire[c].json.v.chat_history.v[3].v.message = JStr("b")
        /\ \A i \in 1..3 : wire[c].json.v.chat_history.v[i].v.tool_calls = JArr(<<>>)

\* a history holding an earlier assistant reply, followed by a User prompt, is rejected
AssistantReplyRejected ==
    \E c \in Calls :
        /\ Started(c, "completion")
        /\ req[c].chat_history = <<UserMessage(<<Text("a")>>), [role |-> "Assistant", content |-> <<Text("a")>>]>>
        /\ UserText(req[c].prompt)
        /\ pc[c] = "done" /\ http_calls[c] = 0
        /\ result[c] = ConversionError("Only user messages are supported by Cohere")

====
